---- MODULE Spec2Model ----
(***************************************************************************)
(* Model of the shopify-insights-fetcher analysis service.                 *)
(*                                                                         *)
(*   BrandAnalyzerService.analyze_brand  (app/services/brand_analyzer.py)  *)
(*   ShopifyScraperService._fetch_page   (app/services/scraper.py)         *)
(*                                                                         *)
(* The database is the committed content of the brands / products /        *)
(* competitors / analyses tables.  Every request runs in its own           *)
(* SQLAlchemy session: attribute assignments are pending until             *)
(* db.session.commit(), a commit is atomic, and a commit whose flush fails *)
(* rolls the transaction back (pending attribute changes are dropped, an   *)
(* object that was only added becomes transient again) and leaves the      *)
(* session inactive: until session.rollback() is called, every commit and  *)
(* every query of that session raises PendingRollbackError.                *)
(***************************************************************************)
EXTENDS Integers, Sequences, FiniteSets, TLC

(***************************************************************************)
(* Bounds of the model.                                                    *)
(***************************************************************************)
\* analyze_brand requests started in one behaviour
MaxRuns == 2
\* requests with include_competitors set in one behaviour
MaxCompetitorRuns == 1
\* database operations that fail for a reason outside the program
\* (connection lost, NOT NULL / length violation, deadlock) in one behaviour
MaxDbFaults == 2

Workers == {"w1", "w2"}
\* the one request thread of the sequential specification
SeqWorkers == {"w1"}

\* Brand.id of an object that was never inserted (Python None)
NoBrand == 0

(***************************************************************************)
(* URLs.  A URL string is kept as its three parts; scheme "" is a string   *)
(* without "scheme://" in front.                                           *)
(***************************************************************************)
InputUrls ==
    { [scheme |-> "https", host |-> "shop.com",  path |-> ""],
      [scheme |-> "https", host |-> "shop.com",  path |-> "/sale"],
      [scheme |-> "https", host |-> "Other.com", path |-> ""] }

\* str.lower() on the host names of the model
lower(h) == CASE h = "Other.com" -> "other.com"
              [] h = "Shop.com"  -> "shop.com"
              [] OTHER           -> h

\* urlparse(url).netloc.lower(): the netloc is empty unless the string has
\* "//" after the scheme
extract_domain(url) == IF url.scheme = "" THEN "" ELSE lower(url.host)

\* scrape_store, lines 40-41: 'https://' is put in front of a string that
\* starts with neither http:// nor https://
qualify(url) == IF url.scheme = "" THEN [url EXCEPT !.scheme = "https"] ELSE url

\* scrape_store, line 43: the domain of the scrape result
scrape_domain(url) == extract_domain(qualify(url))

\* the qualified URL has no host: session.get raises before any request is
\* sent, so the homepage cannot be fetched
Hostless(url) == scrape_domain(url) = ""

\* Strings analyze_brand can be called with when the caller is not the
\* /analyze route (which lets only http:// and https:// URLs through):
\* two host names without scheme, the empty string, and a full URL
DirectUrls ==
    { [scheme |-> "",      host |-> "shop.com",  path |-> ""],
      [scheme |-> "",      host |-> "Other.com", path |-> ""],
      [scheme |-> "",      host |-> "",          path |-> ""],
      [scheme |-> "https", host |-> "shop.com",  path |-> ""] }

(***************************************************************************)
(* Values scraped from a site.                                             *)
(***************************************************************************)
\* What a site serves changes from one scrape to the next: the facts and
\* the products obtained by request number r are named after r.
\* The fifteen fact columns written by _update_brand_from_scraped_data:
NoFacts == << >>
SiteFacts(r) == << r >>
\* The product catalogs request r can obtain: an empty one, or its own
Catalogs(r) == {{}, {r}}

VARIABLES
    brands,             \* brands table: row id -> row (ids are 1..Len)
    products,           \* products table: brand id -> set of products
    analyses,           \* analyses table: brand ids, in insertion order
    pc,                 \* position of each request in analyze_brand
    website_url,        \* argument of the request
    include_competitors,\* argument of the request
    existing_brand,     \* id found by the lookup, NoBrand if none
    brand,              \* the Brand object of the request and its session state
    session,            \* "active", or "inactive" after a failed flush
    scraped_data,       \* result of scrape_store / process_brand_context
    exc,                \* str(e) of the exception that reached the handler
    result,             \* what analyze_brand gave its caller
    competitors,        \* competitors table: the brand_id of each row, in
                        \* insertion order (no code of the model reads a row back)
    competitors_data,   \* list built by _analyze_competitors
    next_competitor,    \* index of the competitor URL handled next
    statusLog,          \* statuses this request has committed, in order
    returnedIds,        \* <<domain, brand id>> of every result returned so far
    run,                \* the number of each request, in order of arrival
    runs,               \* requests started so far
    competitorRuns,     \* requests with include_competitors started so far
    dbFaults,           \* database failures so far
    \* one call of ShopifyScraperService._fetch_page
    fetch_pc,           \* "idle", "loop" (inside the for loop) or "done"
    attempt,            \* the loop variable of range(MAX_RETRIES)
    responses,          \* what session.get gave at each request, in order
    sleeps,             \* the argument of every time.sleep call, in order
    fetch_result,       \* how the call ended
    \* one call of ShopifyScraperService.scrape_store
    scrape_pc,          \* "home", "passes", "catalog" or "done"
    shopify_store,      \* the platform flag of line 49
    next_pass,          \* index of the extraction pass that runs next
    raised_pass,        \* the extraction pass that raised, "none" if none did
    scrape_result,      \* the dict scrape_store builds and returns
    page,               \* page number of _get_product_catalog
    catalog_products,            \* the list 'products' of _get_product_catalog
    page_requests,      \* page numbers requested from /products.json, in order
    page_kinds,         \* what the endpoint served for each request, in order
    \* one call of a function without state
    call,               \* the function called and its arguments
    returned            \* what it returned, NotReturned before the call

vars == << brands, products, analyses, pc, website_url, include_competitors,
           existing_brand, brand, session, scraped_data, exc, result,
           competitors, competitors_data, next_competitor, statusLog, returnedIds,
           run, runs, competitorRuns, dbFaults,
           fetch_pc, attempt, responses, sleeps, fetch_result,
           scrape_pc, shopify_store, next_pass, raised_pass, scrape_result,
           page, catalog_products, page_requests, page_kinds,
           call, returned >>

scrapeVars == << scrape_pc, shopify_store, next_pass, raised_pass, scrape_result,
                 page, catalog_products, page_requests, page_kinds >>

functionVars == << call, returned >>

fetchVars == << fetch_pc, attempt, responses, sleeps, fetch_result >>

analyzerVars == << brands, products, analyses, pc, website_url,
                   include_competitors, existing_brand, brand, session,
                   scraped_data, exc, result, competitors, competitors_data,
                   next_competitor, statusLog, returnedIds, run, runs,
                   competitorRuns, dbFaults >>

dbVars == << brands, products, analyses, competitors >>

(***************************************************************************)
(* Session and table helpers.                                              *)
(***************************************************************************)
NoChanges == [f \in {} |-> "None"]

\* obj.attr = value on an object of the session
SetAttr(dirty, f, v) ==
    [g \in (DOMAIN dirty) \cup {f} |-> IF g = f THEN v ELSE dirty[g]]

\* column defaults of a new brands row (brand.py)
NewBrandRow ==
    [ website_url     |-> "None",
      domain          |-> "None",
      scraping_status |-> "pending",
      scraping_errors |-> "None",
      facts           |-> NoFacts ]

ApplyChanges(row, dirty) ==
    [f \in DOMAIN row |-> IF f \in DOMAIN dirty THEN dirty[f] ELSE row[f]]

\* Brand.query.filter_by(domain=domain).first(): the row with the lowest id
BrandsWithDomain(d) == {i \in 1..Len(brands) : brands[i].domain = d}

FirstBrandWithDomain(d) ==
    IF BrandsWithDomain(d) = {} THEN NoBrand
    ELSE CHOOSE i \in BrandsWithDomain(d) : \A j \in BrandsWithDomain(d) : i <= j

\* website_url is declared unique=True: a flush that would store a second
\* row with the same website_url raises IntegrityError
UniqueViolation(b) ==
    /\ b.state \in {"pending", "persistent"}
    /\ "website_url" \in DOMAIN b.dirty
    /\ \E i \in 1..Len(brands) :
          /\ i # b.id
          /\ brands[i].website_url = b.dirty.website_url

\* the brands table after the flush of Brand object b
FlushedBrands(b) ==
    CASE b.state = "pending" ->
            Append(brands, ApplyChanges(NewBrandRow, b.dirty))
      [] b.state = "persistent" ->
            [brands EXCEPT ![b.id] = ApplyChanges(@, b.dirty)]
      [] OTHER -> brands

\* the products table after that flush: a new brand has no products
FlushedProducts(b) ==
    IF b.state = "pending" THEN Append(products, {}) ELSE products

\* the Brand object after a successful commit
CommittedBrand(b) ==
    CASE b.state = "pending" ->
            [id |-> Len(brands) + 1, state |-> "persistent", dirty |-> NoChanges]
      [] OTHER -> [b EXCEPT !.dirty = NoChanges]

\* the Brand object after the rollback of a failed commit: pending changes
\* are dropped and an object that was only added is expunged
RolledBackBrand(b) ==
    [ id    |-> b.id,
      state |-> IF b.state = "pending" THEN "transient" ELSE b.state,
      dirty |-> NoChanges ]

\* the statuses request w has committed, after a commit of object b
LoggedStatus(w, b) ==
    IF b.state \in {"pending", "persistent"}
       /\ "scraping_status" \in DOMAIN b.dirty
    THEN Append(statusLog[w], b.dirty.scraping_status)
    ELSE statusLog[w]

\* the effect of a db.session.commit() of request w, whose Brand object is
\* b, that succeeds
Committed(w, b) ==
    /\ session[w] = "active"
    /\ ~UniqueViolation(b)
    /\ brands' = FlushedBrands(b)
    /\ products' = FlushedProducts(b)
    /\ brand' = [brand EXCEPT ![w] = CommittedBrand(b)]
    /\ statusLog' = [statusLog EXCEPT ![w] = LoggedStatus(w, b)]
    /\ UNCHANGED session

\* db.session.commit() succeeds and so does what follows it
CommitOk(w, b) ==
    /\ Committed(w, b)
    /\ UNCHANGED << dbFaults, exc >>

\* db.session.commit() raises.  Either the flush fails (the unique
\* constraint, or a failure of the database itself) and the session is left
\* inactive, or the session is inactive already
CommitFails(w, b) ==
    /\ UNCHANGED << brands, products, statusLog >>
    /\ IF session[w] = "active"
       THEN /\ b.state \in {"pending", "persistent"}
            /\ UniqueViolation(b) \/ dbFaults < MaxDbFaults
            /\ session' = [session EXCEPT ![w] = "inactive"]
            /\ brand' = [brand EXCEPT ![w] = RolledBackBrand(b)]
            /\ exc' = [exc EXCEPT ![w] =
                         IF UniqueViolation(b) THEN "IntegrityError"
                         ELSE "OperationalError"]
            /\ dbFaults' = IF UniqueViolation(b) THEN dbFaults ELSE dbFaults + 1
       ELSE /\ brand' = [brand EXCEPT ![w] = b]
            /\ exc' = [exc EXCEPT ![w] = "PendingRollbackError"]
            /\ UNCHANGED << session, dbFaults >>

\* a commit expires the Brand object, and the next read of an attribute
\* (brand.id, brand.to_dict()) reloads it with a SELECT.  The SELECT raises
\* (statement timeout, lock wait timeout): the session stays usable
ReadFails(w) ==
    /\ dbFaults < MaxDbFaults
    /\ dbFaults' = dbFaults + 1
    /\ exc' = [exc EXCEPT ![w] = "OperationalError"]

NoResult == [status |-> "none", has_brand_id |-> FALSE, brand_id |-> NoBrand,
             error |-> "None"]
NoData == [scraping_status |-> "none", scraping_errors |-> "None",
           is_shopify_store |-> FALSE, facts |-> NoFacts,
           has_catalog |-> FALSE, product_catalog |-> {},
           llm_analysis |-> "absent"]
NoObject == [id |-> NoBrand, state |-> "none", dirty |-> NoChanges]

\* scrape_store before 'result' is bound.  'keys' are the passes whose facts
\* the dict holds; the catalog is the list of the pages it was read from
NoScrapeResult ==
    [ scraping_status  |-> "none",
      scraping_errors  |-> "None",
      is_shopify_store |-> FALSE,
      keys             |-> {},
      has_catalog      |-> FALSE,
      product_catalog  |-> << >> ]

\* no function was called yet
NoCall == [fn |-> "none"]
NotReturned == [kind |-> "none"]

Init ==
    /\ brands = << >>
    /\ products = << >>
    /\ analyses = << >>
    /\ pc = [w \in Workers |-> "idle"]
    /\ website_url = [w \in Workers |-> "None"]
    /\ include_competitors = [w \in Workers |-> FALSE]
    /\ existing_brand = [w \in Workers |-> NoBrand]
    /\ brand = [w \in Workers |-> NoObject]
    /\ session = [w \in Workers |-> "active"]
    /\ scraped_data = [w \in Workers |-> NoData]
    /\ exc = [w \in Workers |-> "None"]
    /\ result = [w \in Workers |-> NoResult]
    /\ competitors = << >>
    /\ competitors_data = [w \in Workers |-> << >>]
    /\ next_competitor = [w \in Workers |-> 1]
    /\ statusLog = [w \in Workers |-> << >>]
    /\ returnedIds = {}
    /\ run = [w \in Workers |-> 0]
    /\ runs = 0
    /\ competitorRuns = 0
    /\ dbFaults = 0
    /\ fetch_pc = "idle"
    /\ attempt = 0
    /\ responses = << >>
    /\ sleeps = << >>
    /\ fetch_result = [kind |-> "none"]
    /\ scrape_pc = "home"
    /\ shopify_store = FALSE
    /\ next_pass = 1
    /\ raised_pass = "none"
    /\ scrape_result = NoScrapeResult
    /\ page = 1
    /\ catalog_products = << >>
    /\ page_requests = << >>
    /\ page_kinds = << >>
    /\ call = NoCall
    /\ returned = NotReturned

(***************************************************************************)
(* ShopifyScraperService.scrape_store, by what it gives its caller: the    *)
(* homepage fetch ends "ok" or with an error text; the facts, the platform *)
(* flag and the catalog are what the site serves.                          *)
(***************************************************************************)
HomeOutcomes == {"ok", "NetworkError"}

\* (mutant) the error of the homepage fetch is not kept
scrape_store_without_message(home, facts, is_shopify, catalog) ==
    IF home # "ok"
    THEN [NoData EXCEPT !.scraping_status = "failed"]
    ELSE [ scraping_status  |-> "completed",
           scraping_errors  |-> "None",
           is_shopify_store |-> is_shopify,
           facts            |-> facts,
           has_catalog      |-> is_shopify,
           product_catalog  |-> IF is_shopify THEN catalog ELSE {},
           llm_analysis     |-> "absent" ]

scrape_store(home, facts, is_shopify, catalog) ==
    IF home # "ok"
    THEN [NoData EXCEPT !.scraping_status = "failed", !.scraping_errors = home]
    ELSE [ scraping_status  |-> "completed",
           scraping_errors  |-> "None",
           is_shopify_store |-> is_shopify,
           facts            |-> facts,
           has_catalog      |-> is_shopify,
           product_catalog  |-> IF is_shopify THEN catalog ELSE {},
           llm_analysis     |-> "absent" ]

\* LLMProcessorService.process_brand_context: the facts pass through, only
\* llm_analysis is attached
LlmOutcomes == {"no_key", "json", "malformed", "raises"}

\* (mutant) a failure of the enrichment loses the scraped facts
process_brand_context_losing_facts(data, llm) ==
    IF llm \in {"malformed", "raises"}
    THEN [NoData EXCEPT !.scraping_status = data.scraping_status,
                        !.llm_analysis = "error"]
    ELSE [data EXCEPT !.llm_analysis = IF llm = "no_key" THEN "absent" ELSE "analysis"]

process_brand_context(data, llm) ==
    [data EXCEPT !.llm_analysis =
        CASE llm = "no_key" -> "absent"
          [] llm = "json"   -> "analysis"
          [] OTHER          -> "error"]

\* processed_data.get('product_catalog') is truthy
HasProducts(data) == data.has_catalog /\ data.product_catalog # {}

(***************************************************************************)
(* BrandAnalyzerService.analyze_brand                                      *)
(***************************************************************************)
\* (mutant) the lookup keyed by the URL instead of the domain
LookupBrandByUrl(url) ==
    IF \E i \in 1..Len(brands) : brands[i].website_url = url
    THEN CHOOSE i \in 1..Len(brands) :
            /\ brands[i].website_url = url
            /\ \A j \in 1..Len(brands) : brands[j].website_url = url => i <= j
    ELSE NoBrand

\* Brand.query.filter_by(domain=domain).first()
LookupBrand(url) == FirstBrandWithDomain(extract_domain(url))

\* (mutant) the status is not assigned before the first commit
StartedAttrsWithoutStatus(url) ==
    [ website_url |-> url,
      domain      |-> extract_domain(url) ]

\* the values assigned at lines 37-39
StartedAttrs(url) ==
    [ scraping_status |-> "in_progress",
      website_url     |-> url,
      domain          |-> extract_domain(url) ]

\* the assignments among them that change the object: an attribute of a
\* loaded row that is assigned the value it already has is not written
ChangedAttrs(url, found) ==
    IF found = NoBrand THEN StartedAttrs(url)
    ELSE [f \in {g \in DOMAIN StartedAttrs(url) :
                    StartedAttrs(url)[g] # brands[found][g]}
            |-> StartedAttrs(url)[f]]

\* (mutant) a brand already analyzed keeps its terminal status
StartedBrandKeepsStatus(url, found) ==
    [ id    |-> found,
      state |-> IF found # NoBrand THEN "persistent" ELSE "pending",
      dirty |-> IF found = NoBrand THEN ChangedAttrs(url, found)
                ELSE [f \in (DOMAIN ChangedAttrs(url, found)) \ {"scraping_status"}
                        |-> ChangedAttrs(url, found)[f]] ]

\* the Brand object after lines 30-42: the row found or a new object, with
\* status, URL and domain assigned
StartedBrand(url, found) ==
    [ id    |-> found,
      state |-> IF found # NoBrand THEN "persistent" ELSE "pending",
      dirty |-> ChangedAttrs(url, found) ]

ErrorResult(b, msg) ==
    [status |-> "error", has_brand_id |-> TRUE, brand_id |-> b.id, error |-> msg]

OkResult(b) ==
    [status |-> "ok", has_brand_id |-> TRUE, brand_id |-> b.id, error |-> "None"]

\* lines 21-42: look the brand up by domain, reuse it or make a new object
StartAnalysis(w, urls) ==
    /\ pc[w] = "idle"
    /\ runs < MaxRuns
    /\ runs' = runs + 1
    /\ run' = [run EXCEPT ![w] = runs + 1]
    /\ \E url \in urls, inc \in BOOLEAN :
         /\ inc => competitorRuns < MaxCompetitorRuns
         /\ competitorRuns' = IF inc THEN competitorRuns + 1 ELSE competitorRuns
         /\ website_url' = [website_url EXCEPT ![w] = url]
         /\ include_competitors' = [include_competitors EXCEPT ![w] = inc]
         /\ \/ /\ existing_brand' = [existing_brand EXCEPT ![w] = LookupBrand(url)]
               /\ brand' = [brand EXCEPT ![w] = StartedBrand(url, LookupBrand(url))]
               /\ pc' = [pc EXCEPT ![w] = "commit_in_progress"]
               /\ UNCHANGED << exc, dbFaults >>
            \/ \* the query raises: 'brand' is not bound when the handler runs
               /\ dbFaults < MaxDbFaults
               /\ dbFaults' = dbFaults + 1
               /\ exc' = [exc EXCEPT ![w] = "OperationalError"]
               /\ pc' = [pc EXCEPT ![w] = "handler"]
               /\ UNCHANGED << existing_brand, brand >>
    /\ UNCHANGED << dbVars, session, scraped_data, result, competitors_data,
                    next_competitor, statusLog, returnedIds, fetchVars, scrapeVars, functionVars >>

\* a request that came through the /analyze route
AnalyzeBrand(w) == StartAnalysis(w, InputUrls)

\* a call of analyze_brand with any string
AnalyzeBrandDirect(w) == StartAnalysis(w, DirectUrls)

\* line 44: persist in_progress
CommitInProgress(w) ==
    /\ pc[w] = "commit_in_progress"
    /\ \/ /\ CommitOk(w, brand[w])
          /\ pc' = [pc EXCEPT ![w] = "scrape"]
       \/ /\ CommitFails(w, brand[w])
          /\ pc' = [pc EXCEPT ![w] = "handler"]
    /\ UNCHANGED << analyses, competitors, website_url, include_competitors,
                    existing_brand, scraped_data, result, competitors_data,
                    next_competitor, returnedIds, run, runs, competitorRuns, fetchVars, scrapeVars, functionVars >>

\* line 47: scrape the site
ScrapeStore(w) ==
    /\ pc[w] = "scrape"
    /\ \E home \in HomeOutcomes, is_shopify \in BOOLEAN,
          catalog \in Catalogs(run[w]) :
         \* the choices a result does not depend on are made once
         /\ home # "ok" => ~is_shopify
         /\ ~is_shopify => catalog = {}
         /\ Hostless(website_url[w]) => home # "ok"
         /\ scraped_data' = [scraped_data EXCEPT ![w] =
                 scrape_store(home, SiteFacts(run[w]), is_shopify, catalog)]
    /\ pc' = [pc EXCEPT ![w] =
                IF scraped_data'[w].scraping_status = "failed"
                THEN "scrape_failed" ELSE "process"]
    /\ UNCHANGED << dbVars, website_url, include_competitors, existing_brand,
                    brand, session, exc, result, competitors_data, next_competitor,
                    statusLog, returnedIds, run, runs, competitorRuns, dbFaults,
                    fetchVars, scrapeVars, functionVars >>

\* (mutant) the status is set but the error text is not stored
FailedBrandWithoutErrors(b, errors) ==
    [b EXCEPT !.dirty = SetAttr(@, "scraping_status", "failed")]

\* the Brand object after lines 50-51
FailedBrand(b, errors) ==
    [b EXCEPT !.dirty = SetAttr(SetAttr(@, "scraping_status", "failed"),
                                "scraping_errors", errors)]

\* lines 49-53: the scrape failed
ScrapeFailed(w) ==
    /\ pc[w] = "scrape_failed"
    /\ LET b == FailedBrand(brand[w], scraped_data[w].scraping_errors) IN
       \/ /\ CommitOk(w, b)
          /\ result' = [result EXCEPT ![w] =
                          ErrorResult(b, "Failed to scrape brand data")]
          /\ pc' = [pc EXCEPT ![w] = "done"]
       \/ /\ CommitFails(w, b)
          /\ pc' = [pc EXCEPT ![w] = "handler"]
          /\ UNCHANGED result
       \/ \* line 53: the read of brand.id raises
          /\ Committed(w, b)
          /\ ReadFails(w)
          /\ pc' = [pc EXCEPT ![w] = "handler"]
          /\ UNCHANGED result
    /\ UNCHANGED << analyses, competitors, website_url, include_competitors,
                    existing_brand, scraped_data, competitors_data,
                    next_competitor, returnedIds, run, runs, competitorRuns, fetchVars, scrapeVars, functionVars >>

\* _update_brand_from_scraped_data: every fact column is assigned
UpdatedBrand(b, data) == [b EXCEPT !.dirty = SetAttr(@, "facts", data.facts)]

\* lines 55-62: enrichment, then the facts are assigned to the Brand object
ProcessAndUpdate(w) ==
    /\ pc[w] = "process"
    /\ \E llm \in LlmOutcomes :
         scraped_data' = [scraped_data EXCEPT ![w] = process_brand_context(@, llm)]
    /\ brand' = [brand EXCEPT ![w] = UpdatedBrand(@, scraped_data'[w])]
    /\ pc' = [pc EXCEPT ![w] =
                IF HasProducts(scraped_data'[w]) THEN "save_products"
                ELSE "mark_completed"]
    /\ UNCHANGED << dbVars, website_url, include_competitors, existing_brand,
                    session, exc, result, competitors_data, next_competitor,
                    statusLog, returnedIds, run, runs, competitorRuns, dbFaults,
                    fetchVars, scrapeVars, functionVars >>

\* the products table after _save_products of this catalog for brand id
ReplacedProducts(id, catalog) == [products EXCEPT ![id] = catalog]

\* lines 63, 125-157: _save_products.  The DELETE autoflushes the pending
\* facts, and one commit stores them with the new products; any exception is
\* logged and the session rolled back
SaveProducts(w) ==
    /\ pc[w] = "save_products"
    /\ \/ /\ ~UniqueViolation(brand[w])
          /\ brands' = FlushedBrands(brand[w])
          /\ products' = ReplacedProducts(brand[w].id, scraped_data[w].product_catalog)
          /\ brand' = [brand EXCEPT ![w] = CommittedBrand(@)]
          /\ statusLog' = [statusLog EXCEPT ![w] = LoggedStatus(w, brand[w])]
          /\ UNCHANGED dbFaults
       \/ /\ dbFaults < MaxDbFaults
          /\ dbFaults' = dbFaults + 1
          /\ brand' = [brand EXCEPT ![w] = RolledBackBrand(@)]
          /\ UNCHANGED << brands, products, statusLog >>
    /\ pc' = [pc EXCEPT ![w] = "mark_completed"]
    /\ UNCHANGED << analyses, competitors, website_url, include_competitors,
                    existing_brand, session, scraped_data, exc, result,
                    competitors_data, next_competitor, returnedIds, run, runs, competitorRuns, fetchVars, scrapeVars, functionVars >>

\* the Brand object after lines 66-67
CompletedBrand(b) == [b EXCEPT !.dirty = SetAttr(@, "scraping_status", "completed")]

\* lines 65-74: persist completed and build the result.  processed_data is
\* not read again once the competitor phase starts
MarkCompleted(w) ==
    /\ pc[w] = "mark_completed"
    /\ LET b == CompletedBrand(brand[w]) IN
       \/ /\ CommitOk(w, b)
          /\ result' = [result EXCEPT ![w] = OkResult(b)]
          /\ pc' = [pc EXCEPT ![w] =
                      IF include_competitors[w] THEN "competitors" ELSE "done"]
          /\ scraped_data' = [scraped_data EXCEPT ![w] =
                      IF include_competitors[w] THEN NoData ELSE @]
       \/ /\ CommitFails(w, b)
          /\ pc' = [pc EXCEPT ![w] = "handler"]
          /\ UNCHANGED << result, scraped_data >>
       \/ \* lines 70-71: the read of brand.id / brand.to_dict() raises
          /\ Committed(w, b)
          /\ ReadFails(w)
          /\ pc' = [pc EXCEPT ![w] = "handler"]
          /\ UNCHANGED << result, scraped_data >>
    /\ UNCHANGED << analyses, competitors, website_url, include_competitors,
                    existing_brand, competitors_data,
                    next_competitor, returnedIds, run, runs, competitorRuns, fetchVars, scrapeVars, functionVars >>

\* find_competitors: common_stores[:3]
CompetitorUrls == << "gymshark.com", "allbirds.com", "colourpop.com" >>

\* lines 77-79, 159-179: one turn of the loop of _analyze_competitors.  A
\* competitor whose scrape completed is saved and listed; an exception
\* (a failing commit of _save_competitor) ends the phase with an empty list
\* and, as nothing calls rollback, with the session inactive
AnalyzeCompetitor(w) ==
    /\ pc[w] = "competitors"
    /\ LET url  == CompetitorUrls[next_competitor[w]]
           last == next_competitor[w] = Len(CompetitorUrls)
       IN
       \/ \* scraping_status is failed: the competitor is skipped
          /\ next_competitor' = [next_competitor EXCEPT ![w] = @ + 1]
          /\ pc' = [pc EXCEPT ![w] = IF last THEN "report" ELSE "competitors"]
          /\ UNCHANGED << competitors, competitors_data, dbFaults, session >>
       \/ \* scraping_status is completed: _save_competitor commits the row
          /\ competitors' = Append(competitors, brand[w].id)
          /\ competitors_data' = [competitors_data EXCEPT ![w] = Append(@, url)]
          /\ next_competitor' = [next_competitor EXCEPT ![w] = @ + 1]
          /\ pc' = [pc EXCEPT ![w] = IF last THEN "report" ELSE "competitors"]
          /\ UNCHANGED << dbFaults, session >>
       \/ \* the commit of _save_competitor raises: except branch, return []
          /\ dbFaults < MaxDbFaults
          /\ dbFaults' = dbFaults + 1
          /\ competitors_data' = [competitors_data EXCEPT ![w] = << >>]
          /\ session' = [session EXCEPT ![w] = "inactive"]
          /\ pc' = [pc EXCEPT ![w] = "report"]
          /\ UNCHANGED << competitors, next_competitor >>
    /\ UNCHANGED << brands, products, analyses, website_url,
                    include_competitors, existing_brand, brand, scraped_data,
                    exc, result, statusLog, returnedIds, run, runs, competitorRuns, fetchVars, scrapeVars, functionVars >>

\* lines 81-92: brand.to_dict() and generate_competitive_report (which
\* catches its own exceptions), then _save_analysis commits the Analysis row
CompetitiveReport(w) ==
    /\ pc[w] = "report"
    /\ \/ /\ session[w] = "active"
          /\ analyses' = Append(analyses, brand[w].id)
          /\ pc' = [pc EXCEPT ![w] = "done"]
          /\ UNCHANGED << exc, dbFaults, session >>
       \/ \* line 82: the commits of _save_competitor expired the Brand
          \* object, and the read that reloads it raises
          /\ session[w] = "active"
          /\ competitors_data[w] # << >>
          /\ ReadFails(w)
          /\ pc' = [pc EXCEPT ![w] = "handler"]
          /\ UNCHANGED << analyses, session >>
       \/ \* line 223: the commit of _save_analysis raises
          /\ session[w] = "active"
          /\ dbFaults < MaxDbFaults
          /\ dbFaults' = dbFaults + 1
          /\ exc' = [exc EXCEPT ![w] = "OperationalError"]
          /\ session' = [session EXCEPT ![w] = "inactive"]
          /\ pc' = [pc EXCEPT ![w] = "handler"]
          /\ UNCHANGED analyses
       \/ \* line 82: the session is inactive and the Brand object expired
          /\ session[w] = "inactive"
          /\ exc' = [exc EXCEPT ![w] = "PendingRollbackError"]
          /\ pc' = [pc EXCEPT ![w] = "handler"]
          /\ UNCHANGED << analyses, dbFaults, session >>
    /\ UNCHANGED << brands, products, competitors, website_url,
                    include_competitors, existing_brand, brand, scraped_data,
                    result, competitors_data, next_competitor, statusLog,
                    returnedIds, run, runs, competitorRuns, fetchVars, scrapeVars, functionVars >>

\* lines 94-104: the except clause of analyze_brand
HandleException(w) ==
    /\ pc[w] = "handler"
    /\ \/ \* 'brand' in locals(): force failed, commit, return the id
          /\ brand[w].state # "none"
          /\ LET b == FailedBrand(brand[w], exc[w]) IN
             \/ /\ CommitOk(w, b)
                /\ result' = [result EXCEPT ![w] = ErrorResult(b, exc[w])]
             \/ \* the commit of the handler raises: the exception leaves
                \* analyze_brand
                /\ CommitFails(w, b)
                /\ result' = [result EXCEPT ![w] =
                                [NoResult EXCEPT !.status = "raised"]]
             \/ \* line 102: the read of brand.id raises
                /\ Committed(w, b)
                /\ ReadFails(w)
                /\ result' = [result EXCEPT ![w] =
                                [NoResult EXCEPT !.status = "raised"]]
       \/ \* the exception came before 'brand' was bound
          /\ brand[w].state = "none"
          /\ result' = [result EXCEPT ![w] =
                          [NoResult EXCEPT !.status = "error", !.error = exc[w]]]
          /\ UNCHANGED << brands, products, brand, session, statusLog, exc,
                          dbFaults >>
    /\ pc' = [pc EXCEPT ![w] = "done"]
    /\ UNCHANGED << analyses, competitors, website_url, include_competitors,
                    existing_brand, scraped_data, competitors_data,
                    next_competitor, returnedIds, run, runs, competitorRuns, fetchVars, scrapeVars, functionVars >>

\* the request is over: its locals are gone and its session is removed
Return(w) ==
    /\ pc[w] = "done"
    /\ returnedIds' =
          IF result[w].has_brand_id
          THEN returnedIds \cup {<< extract_domain(website_url[w]), result[w].brand_id >>}
          ELSE returnedIds
    /\ pc' = [pc EXCEPT ![w] = "idle"]
    /\ website_url' = [website_url EXCEPT ![w] = "None"]
    /\ include_competitors' = [include_competitors EXCEPT ![w] = FALSE]
    /\ existing_brand' = [existing_brand EXCEPT ![w] = NoBrand]
    /\ brand' = [brand EXCEPT ![w] = NoObject]
    /\ session' = [session EXCEPT ![w] = "active"]
    /\ scraped_data' = [scraped_data EXCEPT ![w] = NoData]
    /\ exc' = [exc EXCEPT ![w] = "None"]
    /\ result' = [result EXCEPT ![w] = NoResult]
    /\ competitors_data' = [competitors_data EXCEPT ![w] = << >>]
    /\ next_competitor' = [next_competitor EXCEPT ![w] = 1]
    /\ statusLog' = [statusLog EXCEPT ![w] = << >>]
    /\ run' = [run EXCEPT ![w] = 0]
    /\ UNCHANGED << dbVars, runs, competitorRuns, dbFaults, fetchVars, scrapeVars, functionVars >>

Request(w) ==
    \/ AnalyzeBrand(w)
    \/ CommitInProgress(w)
    \/ ScrapeStore(w)
    \/ ScrapeFailed(w)
    \/ ProcessAndUpdate(w)
    \/ SaveProducts(w)
    \/ MarkCompleted(w)
    \/ AnalyzeCompetitor(w)
    \/ CompetitiveReport(w)
    \/ HandleException(w)
    \/ Return(w)

\* requests served one after the other
Next == \E w \in SeqWorkers : Request(w)

Spec == Init /\ [][Next]_vars

\* analyze_brand called one call after the other with any string
RequestDirect(w) ==
    \/ AnalyzeBrandDirect(w)
    \/ CommitInProgress(w)
    \/ ScrapeStore(w)
    \/ ScrapeFailed(w)
    \/ ProcessAndUpdate(w)
    \/ SaveProducts(w)
    \/ MarkCompleted(w)
    \/ AnalyzeCompetitor(w)
    \/ CompetitiveReport(w)
    \/ HandleException(w)
    \/ Return(w)

NextDirect == \E w \in SeqWorkers : RequestDirect(w)

SpecDirect == Init /\ [][NextDirect]_vars

\* requests served by concurrent threads or worker processes
NextConcurrent == \E w \in Workers : Request(w)

SpecConcurrent == Init /\ [][NextConcurrent]_vars

(***************************************************************************)
(* ShopifyScraperService._fetch_page                                       *)
(***************************************************************************)
MAX_RETRIES == 3
DELAY_BETWEEN_REQUESTS == 1
\* response.headers.get('Retry-After', 60)
DefaultRetryAfter == 60

\* What session.get can give: a response with a status code (and, for 429,
\* a Retry-After header or none), or a requests exception
NoHeader == << >>
Responses ==
    { [kind |-> "response", status |-> 200, retry_after |-> NoHeader],
      [kind |-> "response", status |-> 429, retry_after |-> NoHeader],
      [kind |-> "response", status |-> 429, retry_after |-> << 5 >>],
      [kind |-> "response", status |-> 404, retry_after |-> NoHeader],
      [kind |-> "response", status |-> 500, retry_after |-> NoHeader],
      [kind |-> "exception", status |-> 0, retry_after |-> NoHeader,
       error |-> "ConnectionError"],
      [kind |-> "exception", status |-> 0, retry_after |-> NoHeader,
       error |-> "Timeout"] }

\* requests.Response.raise_for_status: HTTPError for every 4xx and 5xx status
raise_for_status(resp) == resp.status >= 400 /\ resp.status < 600

\* the RequestException of this request, << >> if there is none
RequestException(resp) ==
    CASE resp.kind = "exception" -> << resp.error >>
      [] raise_for_status(resp)  -> << "HTTPError", resp.status >>
      [] OTHER                   -> << >>

\* int(response.headers.get('Retry-After', 60))
RetryAfter(resp) ==
    IF resp.retry_after = NoHeader THEN DefaultRetryAfter ELSE resp.retry_after[1]

\* (mutant) the same delay before every retry
ConstantDelay(n) == DELAY_BETWEEN_REQUESTS

\* Config.DELAY_BETWEEN_REQUESTS * (2 ** attempt)
BackoffDelay(n) == DELAY_BETWEEN_REQUESTS * (2 ^ n)

\* (mutant) no attempt is taken for the last one
NeverLastAttempt(n) == FALSE

\* attempt == Config.MAX_RETRIES - 1
IsLastAttempt(n) == n = MAX_RETRIES - 1

\* One turn of the for loop, lines 110-130
AttemptOutcome(resp, n) ==
    CASE RequestException(resp) # << >> /\ IsLastAttempt(n) ->
            [kind |-> "raise", cause |-> RequestException(resp)]
      [] RequestException(resp) # << >> /\ ~IsLastAttempt(n) ->
            [kind |-> "retry", sleep |-> BackoffDelay(n)]
      [] RequestException(resp) = << >> /\ resp.status = 429 ->
            [kind |-> "rate_limited", sleep |-> RetryAfter(resp)]
      [] OTHER ->
            [kind |-> "return", text |-> "body"]

\* line 105: the call starts
FetchPage ==
    /\ fetch_pc = "idle"
    /\ fetch_pc' = "loop"
    /\ attempt' = 0
    /\ UNCHANGED << responses, sleeps, fetch_result, analyzerVars, scrapeVars,
                    functionVars >>

\* lines 110-130: one request and what follows it.  When the loop runs out
\* without a return or a raise, the function ends and gives None
FetchAttempt ==
    /\ fetch_pc = "loop"
    /\ \E resp \in Responses :
         LET o == AttemptOutcome(resp, attempt) IN
         /\ responses' = Append(responses, resp)
         /\ sleeps' = IF o.kind \in {"retry", "rate_limited"}
                      THEN Append(sleeps, o.sleep) ELSE sleeps
         /\ attempt' = IF o.kind \in {"retry", "rate_limited"}
                       THEN attempt + 1 ELSE attempt
         /\ fetch_result' =
               CASE o.kind = "return" -> [kind |-> "text", text |-> o.text]
                 [] o.kind = "raise"  -> [kind |-> "NetworkError", cause |-> o.cause]
                 [] attempt + 1 = MAX_RETRIES -> [kind |-> "None"]
                 [] OTHER -> fetch_result
         /\ fetch_pc' = IF o.kind \in {"return", "raise"} \/ attempt + 1 = MAX_RETRIES
                        THEN "done" ELSE "loop"
    /\ UNCHANGED << analyzerVars, scrapeVars, functionVars >>

NextFetch == FetchPage \/ FetchAttempt

SpecFetch == Init /\ [][NextFetch]_vars

\* the call is sequential code: session.get returns or raises within the
\* timeout of line 107 and every time.sleep ends, so a turn of the loop that
\* can be taken is taken
SpecFetchLive == SpecFetch /\ WF_vars(FetchAttempt)

(***************************************************************************)
(* ShopifyScraperService.scrape_store and _get_product_catalog, step by    *)
(* step.                                                                   *)
(***************************************************************************)
\* pages of /products.json requested by one call, at most
MaxPages == 3

\* the extraction passes of lines 64-82, in the order they run
Passes == << "basic_info", "contact_info", "social_handles", "important_links",
             "policies", "faqs", "hero_products" >>

\* lines 95-103: the dict of the except clause
FailedScrape(error) ==
    [NoScrapeResult EXCEPT !.scraping_status = "failed", !.scraping_errors = error]

\* lines 52-58: the dict before the passes
StartedScrape(shopify) ==
    [NoScrapeResult EXCEPT !.scraping_status = "completed",
                           !.is_shopify_store = shopify]

\* Strings scrape_store can be called with: a full URL, a host name, and a
\* string with an opening bracket that is never closed
ScrapeUrls ==
    { [scheme |-> "https", host |-> "shop.com", path |-> ""],
      [scheme |-> "",      host |-> "shop.com", path |-> ""],
      [scheme |-> "",      host |-> "[shop",    path |-> ""] }

\* urlparse raises ValueError ('Invalid IPv6 URL') for a netloc with '['
\* and without ']'
urlparse_raises(url) == url.scheme # "" /\ url.host = "[shop"

\* lines 95-103 when the except clause itself raises: no dict is returned,
\* the exception reaches the caller
RaisedScrape(error) ==
    [NoScrapeResult EXCEPT !.scraping_status = "raised", !.scraping_errors = error]

\* lines 39-58: the URL and the homepage.  extract_domain raises at line 43
\* and again at line 99, where the except clause calls it because 'domain'
\* was never bound; or _fetch_page raises NetworkError; or it gives the
\* body, in which the platform is detected
FetchHome ==
    /\ scrape_pc = "home"
    /\ \E url \in ScrapeUrls, home \in HomeOutcomes, shopify \in BOOLEAN :
         IF urlparse_raises(qualify(url))
         THEN /\ scrape_result' = RaisedScrape("ValueError")
              /\ scrape_pc' = "done"
              /\ UNCHANGED shopify_store
         ELSE IF home # "ok"
         THEN /\ scrape_result' = FailedScrape(home)
              /\ scrape_pc' = "done"
              /\ UNCHANGED shopify_store
         ELSE /\ scrape_result' = StartedScrape(shopify)
              /\ shopify_store' = shopify
              /\ scrape_pc' = "passes"
    /\ UNCHANGED << next_pass, raised_pass, page, catalog_products, page_requests,
                    page_kinds, analyzerVars, fetchVars, functionVars >>

\* one extraction pass finds facts, finds nothing, or raises
PassOutcomes == {"facts", "nothing", "raises"}

\* lines 64-82: one extraction pass.  It adds the facts it found to the
\* dict, or it raises and the except clause of line 95 replaces the dict
ExtractPass ==
    /\ scrape_pc = "passes"
    /\ \E outcome \in PassOutcomes :
         IF outcome = "raises"
         THEN /\ raised_pass' = Passes[next_pass]
              /\ scrape_result' = FailedScrape("AttributeError")
              /\ scrape_pc' = "done"
              /\ UNCHANGED next_pass
         ELSE /\ scrape_result' =
                    [scrape_result EXCEPT !.keys =
                        IF outcome = "facts" THEN @ \cup {Passes[next_pass]} ELSE @]
              /\ next_pass' = next_pass + 1
              /\ scrape_pc' = CASE next_pass < Len(Passes) -> "passes"
                                [] shopify_store         -> "catalog"
                                [] OTHER                  -> "done"
              /\ UNCHANGED raised_pass
    /\ UNCHANGED << shopify_store, page, catalog_products, page_requests,
                    page_kinds, analyzerVars, fetchVars, functionVars >>

\* What a request for one page of /products.json can give: a JSON object
\* with products, one with an empty products array, a failed fetch
\* (NetworkError), a body that is not JSON, or JSON that is not an object
PageKinds == {"products", "empty", "fetch_error", "bad_json", "not_object"}

\* (mutant) a page that cannot be read is skipped and the next one requested
SkipsUnreadablePage(kind) == kind \in {"products", "fetch_error", "bad_json"}

\* (mutant) an empty page does not end the loop
GoesOnAfterEmptyPage(kind) == kind \in {"products", "empty"}

\* line 351 is passed: the loop goes on to the next page
NextPageFollows(kind) == kind = "products"

\* lines 85-93, 340-400: one turn of the loop of _get_product_catalog.  The
\* products of page n are named after n
CatalogPage ==
    /\ scrape_pc = "catalog"
    /\ page <= MaxPages
    /\ \E kind \in PageKinds :
         /\ page_requests' = Append(page_requests, page)
         /\ page_kinds' = Append(page_kinds, kind)
         /\ catalog_products' = IF kind = "products"
                                THEN Append(catalog_products, page)
                                ELSE catalog_products
         /\ page' = IF NextPageFollows(kind) THEN page + 1 ELSE page
         /\ IF NextPageFollows(kind)
            THEN UNCHANGED << scrape_pc, scrape_result >>
            ELSE /\ scrape_pc' = "done"
                 /\ scrape_result' = [scrape_result EXCEPT
                                         !.has_catalog = TRUE,
                                         !.product_catalog = catalog_products']
    /\ UNCHANGED << shopify_store, next_pass, raised_pass,
                    analyzerVars, fetchVars, functionVars >>

NextScrape == FetchHome \/ ExtractPass \/ CatalogPage

SpecScrape == Init /\ [][NextScrape]_vars

(***************************************************************************)
(* Functions of one call: generate_competitive_report, _extract_faqs,      *)
(* _extract_hero_products, is_shopify_store, the name of                   *)
(* _extract_basic_info and truncate_text.  CallFunction draws the          *)
(* arguments, the action of the function called computes what it returns.  *)
(***************************************************************************)
MaxProductCount == 5
MaxCompetitors == 3
MaxItems == 11

\* a dict without the key product_catalog
NoCatalogKey == 0 - 1

\* the product_catalog of a dict: absent, or a list of that many products
CatalogSizes == {NoCatalogKey} \cup (0..MaxProductCount)

CompetitorLists == UNION { [1..n -> CatalogSizes] : n \in 0..MaxCompetitors }

\* len(d.get('product_catalog', []))
catalog_len(size) == IF size = NoCatalogKey THEN 0 ELSE size

RECURSIVE sum(_)
sum(counts) == IF counts = << >> THEN 0 ELSE Head(counts) + sum(Tail(counts))

\* (mutant) the thresholds are reached, not exceeded
market_position_at_threshold(brand_catalog, competitor_dicts) ==
    LET brand_product_count == catalog_len(brand_catalog)
        competitor_product_counts ==
            [i \in DOMAIN competitor_dicts |-> catalog_len(competitor_dicts[i])]
        n == Len(competitor_product_counts)
        total == sum(competitor_product_counts)
    IN  IF n = 0 THEN "Unknown"
        ELSE IF 2 * brand_product_count * n >= 3 * total THEN "Strong"
        ELSE IF 5 * brand_product_count * n >= 4 * total THEN "Competitive"
        ELSE "Emerging"

\* lines 160-172; avg = total / n, and b > avg * 1.5 is 2*b*n > 3*total,
\* b > avg * 0.8 is 5*b*n > 4*total
market_position(brand_catalog, competitor_dicts) ==
    LET brand_product_count == catalog_len(brand_catalog)
        competitor_product_counts ==
            [i \in DOMAIN competitor_dicts |-> catalog_len(competitor_dicts[i])]
        n == Len(competitor_product_counts)
        total == sum(competitor_product_counts)
    IN  IF n = 0 THEN "Unknown"
        ELSE IF 2 * brand_product_count * n > 3 * total THEN "Strong"
        ELSE IF 5 * brand_product_count * n > 4 * total THEN "Competitive"
        ELSE "Emerging"

\* for dicts whose social_handles and faqs are collections no statement of
\* the try block raises, so the report is returned
generate_competitive_report(brand_catalog, competitor_dicts) ==
    [ kind                 |-> "report",
      competitors_analyzed |-> Len(competitor_dicts),
      market_position      |-> market_position(brand_catalog, competitor_dicts) ]

\* A document, as far as the two extractions read it: `items` elements that
\* match the inner find_all (question elements, product elements), numbered
\* in document order; at most one of them, `defect_at`, is deficient; and
\* the elements matched by the outer find_all, in document order, each given
\* by the first and last item inside it.
FaqDefects == {"empty_question", "no_answer"}
HeroDefects == {"no_title", "no_href"}

\* no matching section, one section, two sections side by side, or a
\* matching section inside a matching section (div.faq > div.faq-list)
Layouts(n) ==
    {<< >>, << <<1, n>> >>}
       \cup { << <<1, k>>, <<k + 1, n>> >> : k \in 1..(n - 1) }
       \cup { << <<1, n>>, <<k, n>> >> : k \in 1..n }

Documents(defects) ==
    UNION { { [items |-> n, defect_at |-> d, defect |-> k, sections |-> l]
                 : d \in 1..n, k \in defects, l \in Layouts(n) }
            \cup
            { [items |-> n, defect_at |-> 0, defect |-> "none", sections |-> l]
                 : l \in Layouts(n) }
          : n \in 0..MaxItems }

\* the items inside one section, in document order
ItemsOf(section) ==
    [i \in 1..(section[2] - section[1] + 1) |-> section[1] + i - 1]

\* the items in the order the two nested for loops visit them
RECURSIVE Visited(_)
Visited(sections) ==
    IF sections = << >> THEN << >>
    ELSE ItemsOf(Head(sections)) \o Visited(Tail(sections))

\* s[:k]
Slice(s, k) == SubSeq(s, 1, IF Len(s) < k THEN Len(s) ELSE k)

FaqLimit == 10
HeroLimit == 5

\* lines 248-280: an item gives a pair when question and answer text are
\* both non-empty; the value lists the items the pairs were taken from
extract_faqs(doc) ==
    LET IsPair(i) == i # doc.defect_at
    IN  [ kind  |-> "list",
          value |-> Slice(SelectSeq(Visited(doc.sections), IsPair), FaqLimit) ]

\* lines 282-329: normalize_url(None, ...) raises for a link without href;
\* an item is kept when its title is non-empty
extract_hero_products(doc) ==
    LET visited == Visited(doc.sections)
        HasTitle(i) == i # doc.defect_at
    IN  IF doc.defect = "no_href" /\ \E k \in 1..Len(visited) : visited[k] = doc.defect_at
        THEN [ kind |-> "raises", error |-> "AttributeError" ]
        ELSE [ kind  |-> "list",
               value |-> Slice(SelectSeq(visited, HasTitle), HeroLimit) ]

\* helpers.is_shopify_store.  A body is None, the empty string, or a text
\* that contains some of the indicators
shopify_indicators ==
    { "Shopify.theme", "shopify.com", "shopify-analytics", "cdn.shopify.com",
      "myshopify.com", "Shopify.shop", "window.Shopify" }

Bodies ==
    { [kind |-> "None", contains |-> {}], [kind |-> "empty", contains |-> {}],
      [kind |-> "text", contains |-> {}] }
    \cup { [kind |-> "text", contains |-> {i}] : i \in shopify_indicators }

\* the second argument: a store on its own domain, a store on the hosted
\* subdomain, and a store on its own domain whose URL names the hosted
\* domain in the query string; NoUrl is the default None
NoUrl == [scheme |-> "", host |-> "None", path |-> ""]
DetectionUrls ==
    { NoUrl,
      [scheme |-> "https", host |-> "shop.com",            path |-> ""],
      [scheme |-> "https", host |-> "store.myshopify.com", path |-> ""],
      [scheme |-> "https", host |-> "shop.com", path |-> "/?ref=myshopify.com"] }

\* the host of the URL is a hosted subdomain
HostedSubdomain(url) == url.host = "store.myshopify.com"

\* 'myshopify.com' in url
mentions_myshopify(url) ==
    url.host = "store.myshopify.com" \/ url.path = "/?ref=myshopify.com"

\* lines 109-133
is_shopify_store(html_content, url) ==
    IF html_content.kind \in {"None", "empty"} THEN FALSE
    ELSE IF \E indicator \in shopify_indicators : indicator \in html_content.contains
         THEN TRUE
    ELSE IF url # NoUrl /\ mentions_myshopify(url) THEN TRUE
    ELSE FALSE

\* _extract_basic_info, lines 139-164: where the name comes from.  Each
\* source is absent, present with empty text, or present with text
SourceStates == {"absent", "empty", "text"}

extract_name(title, meta, logo) ==
    LET \* lines 143-145: the <title> text, cleaned
        after_title == IF title = "text" THEN "title" ELSE "none"
        \* lines 148-151: the first meta tag with content is assigned
        after_meta == IF meta = "text" THEN "meta" ELSE after_title
        \* lines 154-159: only when there is no name so far
        after_logo == IF after_meta = "none" /\ logo = "text"
                      THEN "logo" ELSE after_meta
    IN  \* lines 161-162
        IF after_logo = "none" THEN "domain" ELSE after_logo

\* helpers.truncate_text.  A text is given by its length and by the index
\* of the last space among its first max_length characters (rfind: -1 when
\* there is none)
PolicyLimit == 2000
AnswerLimit == 500
EllipsisLen == 3
\* characters beyond the limit in the longest text of the model
MaxExcess == 40

NoSpace == 0 - 1

TextsFor(max_length) ==
    { [length |-> n, last_space |-> p] :
        n \in {0, 1, max_length - 1, max_length, max_length + 1,
               max_length + MaxExcess},
        p \in {NoSpace, (4 * max_length) \div 5, (4 * max_length) \div 5 + 1,
               max_length - 1} }

\* the texts whose last space lies inside them
Texts(max_length) ==
    { t \in TextsFor(max_length) :
         t.last_space < t.length /\ t.last_space < max_length }

\* lines 177-189; last_space > max_length * 0.8 is 5*last_space > 4*max_length
truncate_text(text, max_length) ==
    IF text.length = 0 \/ text.length <= max_length
    THEN [length |-> text.length, unchanged |-> TRUE]
    ELSE LET truncated == IF 5 * text.last_space > 4 * max_length
                          THEN text.last_space ELSE max_length
         IN  [length |-> truncated + EllipsisLen, unchanged |-> FALSE]

FunctionCalls ==
    { [fn |-> "generate_competitive_report", brand_data |-> b, competitors |-> c]
         : b \in CatalogSizes, c \in CompetitorLists }
    \cup { [fn |-> "_extract_faqs", soup |-> d] : d \in Documents(FaqDefects) }
    \cup { [fn |-> "_extract_hero_products", soup |-> d] : d \in Documents(HeroDefects) }
    \cup { [fn |-> "is_shopify_store", html_content |-> b, url |-> u]
              : b \in Bodies, u \in DetectionUrls }
    \cup { [fn |-> "_extract_basic_info", title |-> t, meta |-> m, logo |-> l]
              : t \in SourceStates, m \in SourceStates, l \in SourceStates }
    \cup { [fn |-> "truncate_text", text |-> t, max_length |-> n]
              : n \in {PolicyLimit}, t \in Texts(PolicyLimit) }
    \cup { [fn |-> "truncate_text", text |-> t, max_length |-> n]
              : n \in {AnswerLimit}, t \in Texts(AnswerLimit) }

CallFunction ==
    /\ call = NoCall
    /\ call' \in FunctionCalls
    /\ UNCHANGED << returned, analyzerVars, fetchVars, scrapeVars >>

GenerateCompetitiveReport ==
    /\ call.fn = "generate_competitive_report"
    /\ returned = NotReturned
    /\ returned' = generate_competitive_report(call.brand_data, call.competitors)
    /\ UNCHANGED << call, analyzerVars, fetchVars, scrapeVars >>

ExtractFaqs ==
    /\ call.fn = "_extract_faqs"
    /\ returned = NotReturned
    /\ returned' = extract_faqs(call.soup)
    /\ UNCHANGED << call, analyzerVars, fetchVars, scrapeVars >>

ExtractHeroProducts ==
    /\ call.fn = "_extract_hero_products"
    /\ returned = NotReturned
    /\ returned' = extract_hero_products(call.soup)
    /\ UNCHANGED << call, analyzerVars, fetchVars, scrapeVars >>

IsShopifyStore ==
    /\ call.fn = "is_shopify_store"
    /\ returned = NotReturned
    /\ returned' = [kind  |-> "bool",
                    value |-> is_shopify_store(call.html_content, call.url)]
    /\ UNCHANGED << call, analyzerVars, fetchVars, scrapeVars >>

ExtractBasicInfo ==
    /\ call.fn = "_extract_basic_info"
    /\ returned = NotReturned
    /\ returned' = [kind |-> "dict",
                    name |-> extract_name(call.title, call.meta, call.logo)]
    /\ UNCHANGED << call, analyzerVars, fetchVars, scrapeVars >>

TruncateText ==
    /\ call.fn = "truncate_text"
    /\ returned = NotReturned
    /\ returned' = [kind |-> "text",
                    text |-> truncate_text(call.text, call.max_length)]
    /\ UNCHANGED << call, analyzerVars, fetchVars, scrapeVars >>

NextFunctions ==
    \/ CallFunction
    \/ GenerateCompetitiveReport
    \/ ExtractFaqs
    \/ ExtractHeroProducts
    \/ IsShopifyStore
    \/ ExtractBasicInfo
    \/ TruncateText

SpecFunctions == Init /\ [][NextFunctions]_vars

(***************************************************************************)
(* Properties                                                              *)
(***************************************************************************)
Domains == {extract_domain(u) : u \in InputUrls}

\* the domain of the request of w (defined once the request has started)
DomainOf(w) == extract_domain(website_url[w])

Returned(w) == pc[w] = "done" /\ result[w].status \in {"ok", "error"}

\* C1: requests served one after the other for URLs of one domain all work
\* on one BrandRecord: a request that found the record returns its id, every
\* id returned earlier for the domain is that same id, and the domain never
\* has more than one record.
C1_RerunUpdatesSameBrand ==
    /\ \A d \in Domains : Cardinality(BrandsWithDomain(d)) <= 1
    /\ \A p \in returnedIds : p[2] # NoBrand => BrandsWithDomain(p[1]) = {p[2]}
    /\ \A w \in Workers :
          (Returned(w) /\ existing_brand[w] # NoBrand) =>
             /\ result[w].has_brand_id
             /\ result[w].brand_id = existing_brand[w]
             /\ BrandsWithDomain(DomainOf(w)) = {existing_brand[w]}
             /\ \A p \in returnedIds :
                   (p[1] = DomainOf(w) /\ p[2] # NoBrand) => p[2] = result[w].brand_id

\* a second request, through another URL of the domain, returned the id the
\* first request returned
C1_Witness ==
    \E w \in Workers :
       /\ Returned(w)
       /\ result[w].status = "ok"
       /\ existing_brand[w] # NoBrand
       /\ << DomainOf(w), result[w].brand_id >> \in returnedIds
       /\ website_url[w].path = "/sale"

\* C2: when a request that obtained a catalog ends completed (and no
\* database operation failed), the products stored for the brand are exactly
\* that catalog, also when the catalog is empty.
C2_ProductsAreTheCatalogOfTheRun ==
    \A w \in Workers :
       ( /\ Returned(w)
         /\ result[w].status = "ok"
         /\ dbFaults = 0
         /\ scraped_data[w].has_catalog )
       => products[result[w].brand_id] = scraped_data[w].product_catalog

\* C3: no two BrandRecords have the same domain.
C3_OneBrandPerDomain ==
    \A i, j \in 1..Len(brands) : brands[i].domain = brands[j].domain => i = j

\* a request is between the assignment of the scraped facts (line 59) and
\* the commit of status completed (line 68)
InFinalPersistStep(w) == pc[w] \in {"save_products", "mark_completed"}

\* C4: two requests for one domain are never both inside the final persist
\* step.
C4_SingleWriterPerDomain ==
    \A v, w \in Workers :
       (v # w /\ InFinalPersistStep(v) /\ InFinalPersistStep(w))
          => DomainOf(v) # DomainOf(w)

\* C5: within one request the committed statuses start with in_progress and
\* nothing is committed after completed or failed.
C5_TerminalStatusIsFinal ==
    \A w \in Workers :
       \A k \in 1..Len(statusLog[w]) :
          /\ k = 1 => statusLog[w][k] = "in_progress"
          /\ k < Len(statusLog[w]) => statusLog[w][k] \notin {"completed", "failed"}

\* C6: no exception leaves analyze_brand, and when the except clause ran
\* for a brand whose row exists the row is left failed with the error text
\* and the result carries the brand id.
C6_NoExceptionEscapes ==
    \A w \in Workers :
       pc[w] = "done" =>
          /\ result[w].status # "raised"
          /\ (exc[w] # "None" /\ brand[w].state = "persistent") =>
                /\ result[w].has_brand_id
                /\ result[w].brand_id = brand[w].id
                /\ brands[brand[w].id].scraping_status = "failed"
                /\ brands[brand[w].id].scraping_errors = exc[w]

\* C7: the step that handles a failed scrape (lines 49-53), when it returns,
\* has stored status failed and the error text of the scrape, has left the
\* facts of the brand and every product as they were, and returns an error
\* result with the id of the brand, which is the id found by the lookup when
\* the domain was known.
C7_FailedScrapeIsRecorded ==
    [][ \A w \in Workers :
          (pc[w] = "scrape_failed" /\ pc'[w] = "done") =>
             /\ scraped_data[w].scraping_status = "failed"
             /\ brands'[brand[w].id].scraping_status = "failed"
             /\ brands'[brand[w].id].scraping_errors = scraped_data[w].scraping_errors
             /\ brands'[brand[w].id].facts = brands[brand[w].id].facts
             /\ products' = products
             /\ result'[w].status = "error"
             /\ result'[w].has_brand_id
             /\ result'[w].brand_id = brand[w].id
             /\ existing_brand[w] # NoBrand => result'[w].brand_id = existing_brand[w]
      ]_vars

\* a failed scrape of a brand that had facts and products from an earlier
\* request
C7_Witness ==
    \E w \in Workers :
       /\ pc[w] = "done"
       /\ result[w].error = "Failed to scrape brand data"
       /\ existing_brand[w] # NoBrand
       /\ result[w].brand_id = existing_brand[w]
       /\ brands[existing_brand[w]].scraping_status = "failed"
       /\ brands[existing_brand[w]].scraping_errors = "NetworkError"
       /\ brands[existing_brand[w]].facts # NoFacts
       /\ products[existing_brand[w]] # {}

\* the brand found by the lookup was left completed or failed
FoundTerminal(w) ==
    /\ existing_brand[w] # NoBrand
    /\ brands[existing_brand[w]].scraping_status \in {"completed", "failed"}

\* C8: a request for a domain whose BrandRecord is completed or failed goes
\* through the commit of in_progress and then through the scrape: unless a
\* database operation fails, the row is in_progress when the scrape starts,
\* and the scrape is the only way on.
C8_ReanalysisStartsOver ==
    [][ \A w \in Workers :
          /\ (pc[w] = "idle" /\ pc'[w] # "idle")
                => pc'[w] \in {"commit_in_progress", "handler"}
          /\ (pc[w] = "commit_in_progress" /\ FoundTerminal(w) /\ pc'[w] # "handler")
                => /\ pc'[w] = "scrape"
                   /\ brands'[existing_brand[w]].scraping_status = "in_progress"
          /\ (pc[w] = "scrape" /\ pc'[w] # "scrape")
                => /\ pc'[w] \in {"scrape_failed", "process"}
                   /\ scraped_data'[w].scraping_status \in {"completed", "failed"}
      ]_vars

\* a brand that an earlier request left completed or failed is in_progress
\* again and about to be scraped
C8_Witness ==
    \E w \in Workers :
       /\ pc[w] = "scrape"
       /\ existing_brand[w] # NoBrand
       /\ << DomainOf(w), existing_brand[w] >> \in returnedIds
       /\ brands[existing_brand[w]].scraping_status = "in_progress"
       /\ brands[existing_brand[w]].facts # NoFacts

\* every request so far ended in a RequestException
AllAttemptsFailed ==
    \A k \in 1..Len(responses) : RequestException(responses[k]) # << >>

\* C9: while every request fails with a request-level error, the delay
\* after failed attempt k (counted from 0) is DELAY_BETWEEN_REQUESTS * 2^k,
\* so each delay is longer than the one before; the call ends at request
\* MAX_RETRIES, with NetworkError carrying the error of the last request.
C9_RetriesWithExponentialBackoff ==
    AllAttemptsFailed =>
       /\ Len(responses) <= MAX_RETRIES
       /\ \A k \in 1..Len(sleeps) : sleeps[k] = DELAY_BETWEEN_REQUESTS * (2 ^ (k - 1))
       /\ \A k \in 2..Len(sleeps) : sleeps[k] > sleeps[k - 1]
       /\ Len(sleeps) = IF fetch_pc = "done" THEN Len(responses) - 1 ELSE Len(responses)
       /\ fetch_pc = "done" <=> Len(responses) = MAX_RETRIES
       /\ fetch_pc = "done" =>
             /\ fetch_result.kind = "NetworkError"
             /\ fetch_result.cause = RequestException(responses[MAX_RETRIES])

\* three failed requests, the last with another error than the first
C9_Witness ==
    /\ fetch_pc = "done"
    /\ AllAttemptsFailed
    /\ Len(responses) = MAX_RETRIES
    /\ Len(sleeps) = MAX_RETRIES - 1
    /\ fetch_result.kind = "NetworkError"
    /\ RequestException(responses[1]) # RequestException(responses[MAX_RETRIES])

IsRateLimited(resp) == resp.kind = "response" /\ resp.status = 429

\* C10: a 429 response is answered by a sleep of Retry-After seconds (60
\* without the header) and is not counted as a failed attempt: the call
\* raises NetworkError only after MAX_RETRIES requests that were not 429.
C10_RateLimitIsNotAFailure ==
    /\ \A k \in 1..Len(responses) :
          (IsRateLimited(responses[k]) /\ k <= Len(sleeps))
             => sleeps[k] = RetryAfter(responses[k])
    /\ fetch_result.kind = "NetworkError" =>
          Cardinality({k \in 1..Len(responses) : ~IsRateLimited(responses[k])})
             = MAX_RETRIES

\* the sequence 1, 2, ..., n
UpTo(n) == [i \in 1..n |-> i]

\* the endpoint served non-empty pages and then an empty one, and the call
\* is over
CatalogEndedByEmptyPage ==
    /\ scrape_pc = "done"
    /\ page_kinds # << >>
    /\ page_kinds[Len(page_kinds)] = "empty"
    /\ \A k \in 1..(Len(page_kinds) - 1) : page_kinds[k] = "products"

\* C11 (as stated): for N non-empty pages followed by an empty page, exactly
\* N requests are made, for pages 1..N, and page N+1 is never requested.
C11_NoRequestForPageAfterLast ==
    CatalogEndedByEmptyPage =>
       /\ page_requests = UpTo(Len(page_kinds) - 1)
       /\ scrape_result.product_catalog = UpTo(Len(page_kinds) - 1)

\* C11 (amended): for N non-empty pages followed by an empty page, exactly
\* N+1 requests are made, for pages 1..N+1 in order (the last one is how the
\* empty page is seen), the products of pages 1..N are returned in order,
\* and page N+2 is never requested.
C11_StopsAtFirstEmptyPage ==
    /\ CatalogEndedByEmptyPage =>
          /\ page_requests = UpTo(Len(page_kinds))
          /\ catalog_products = UpTo(Len(page_kinds) - 1)
          /\ scrape_result.product_catalog = UpTo(Len(page_kinds) - 1)
    /\ \A k \in 1..Len(page_kinds) :
          page_kinds[k] = "empty" =>
             /\ k = Len(page_kinds)
             /\ scrape_pc = "done"

\* two non-empty pages, then the empty page
C11_Witness ==
    /\ scrape_pc = "done"
    /\ page_kinds = << "products", "products", "empty" >>
    /\ page_requests = << 1, 2, 3 >>
    /\ scrape_result.product_catalog = << 1, 2 >>

PageFailures == {"fetch_error", "bad_json"}

\* C12: a page whose fetch or whose JSON parsing fails is the last page
\* requested; the call returns the products of the pages before it, and the
\* scrape ends completed with the facts of the passes and that catalog.
C12_PageFailureTruncatesCatalog ==
    \A n \in 1..Len(page_kinds) :
       page_kinds[n] \in PageFailures =>
          /\ n = Len(page_kinds)
          /\ scrape_pc = "done"
          /\ page_requests = UpTo(n)
          /\ catalog_products = UpTo(n - 1)
          /\ scrape_result.scraping_status = "completed"
          /\ scrape_result.scraping_errors = "None"
          /\ scrape_result.has_catalog
          /\ scrape_result.product_catalog = UpTo(n - 1)

\* the third page cannot be fetched: the catalog is pages 1 and 2 and the
\* scrape is completed with facts
C12_Witness ==
    /\ scrape_pc = "done"
    /\ page_kinds = << "products", "products", "fetch_error" >>
    /\ scrape_result.product_catalog = << 1, 2 >>
    /\ scrape_result.scraping_status = "completed"
    /\ "faqs" \in scrape_result.keys

\* C13: when the fetch of the homepage fails, scrape_store gives status
\* failed with the error of the fetch, analyze_brand goes to lines 49-53 and,
\* when it returns from there, the brand row is failed with that error.
C13_HomepageFailureFailsBrand ==
    \A w \in Workers :
       /\ (pc[w] \in {"scrape_failed", "process"}) =>
             (pc[w] = "scrape_failed" <=> scraped_data[w].scraping_status = "failed")
       /\ scraped_data[w].scraping_status = "failed" =>
             /\ scraped_data[w].scraping_errors \in HomeOutcomes \ {"ok"}
             /\ scraped_data[w].facts = NoFacts
             /\ ~scraped_data[w].has_catalog
             /\ pc[w] \in {"scrape_failed", "handler", "done"}
       /\ ( /\ pc[w] = "done"
            /\ scraped_data[w].scraping_status = "failed"
            /\ exc[w] = "None" ) =>
             /\ result[w].status = "error"
             /\ brands[result[w].brand_id].scraping_status = "failed"
             /\ brands[result[w].brand_id].scraping_errors
                   = scraped_data[w].scraping_errors

\* the homepage of a new brand could not be fetched
C13_Witness ==
    \E w \in Workers :
       /\ pc[w] = "done"
       /\ existing_brand[w] = NoBrand
       /\ scraped_data[w].scraping_status = "failed"
       /\ result[w].status = "error"
       /\ brands[result[w].brand_id].scraping_status = "failed"
       /\ brands[result[w].brand_id].scraping_errors = "NetworkError"

\* C14: when an extraction pass raises, the passes after it still run, the
\* facts of the other passes are in the result and the scrape ends
\* completed.
C14_PassesAreIsolated ==
    (raised_pass # "none" /\ scrape_pc = "done") =>
       /\ scrape_result.scraping_status = "completed"
       /\ next_pass > Len(Passes)

\* the competitor phase of request w is over and nothing raised in it
CompetitorsHandled(w) ==
    /\ pc[w] = "report"
    /\ session[w] = "active"

\* C15: after the competitor phase every competitor has an entry in the
\* list, those whose scrape failed included.
C15_FailedCompetitorIsRecorded ==
    \A w \in Workers :
       CompetitorsHandled(w) => Len(competitors_data[w]) = Len(CompetitorUrls)

\* C16: the competitor phase ends only after every competitor was analyzed,
\* whatever failed for one of them.
C16_CompetitorFailureDoesNotBlock ==
    \A w \in Workers :
       pc[w] = "report" => next_competitor[w] = Len(CompetitorUrls) + 1

\* the enrichment of request w failed
LlmFailed(w) == scraped_data[w].llm_analysis = "error"

\* C17: a failed enrichment leaves every scraped fact and the catalog as
\* they were, does not reach the except clause, and (when no database
\* operation fails) the run ends completed with those facts and products
\* stored.
C17_LlmFailureIsNotFatal ==
    \A w \in Workers :
       LlmFailed(w) =>
          /\ scraped_data[w].scraping_status = "completed"
          /\ scraped_data[w].facts = SiteFacts(run[w])
          /\ scraped_data[w].has_catalog = scraped_data[w].is_shopify_store
          /\ scraped_data[w].product_catalog \in Catalogs(run[w])
          /\ (exc[w] = "None" /\ dbFaults = 0) =>
                pc[w] \in {"save_products", "mark_completed", "done"}
          /\ (pc[w] = "done" /\ dbFaults = 0) =>
                /\ result[w].status = "ok"
                /\ brands[result[w].brand_id].scraping_status = "completed"
                /\ brands[result[w].brand_id].facts = scraped_data[w].facts
                /\ HasProducts(scraped_data[w]) =>
                      products[result[w].brand_id] = scraped_data[w].product_catalog

\* a completed run whose enrichment failed and whose catalog has products
C17_Witness ==
    \E w \in Workers :
       /\ pc[w] = "done"
       /\ LlmFailed(w)
       /\ result[w].status = "ok"
       /\ brands[result[w].brand_id].facts = SiteFacts(run[w])
       /\ products[result[w].brand_id] = {run[w]}

Called(fn) == call.fn = fn /\ returned # NotReturned

\* C18: with competitors, market_position is Strong when the brand's product
\* count b exceeds 1.5 times the mean m of the competitors' product counts,
\* otherwise Competitive when b exceeds 0.8 times m, otherwise Emerging;
\* without competitors it is Unknown.  (b > 1.5*m is 10*b*n > 15*n*m.)
C18_MarketPositionRule ==
    Called("generate_competitive_report") =>
       LET b == catalog_len(call.brand_data)
           n == Len(call.competitors)
           nm == sum([i \in 1..n |-> catalog_len(call.competitors[i])])
       IN  /\ returned.kind = "report"
           /\ returned.market_position =
                 CASE n = 0 -> "Unknown"
                   [] n > 0 /\ 10 * b * n > 15 * nm -> "Strong"
                   [] n > 0 /\ 10 * b * n <= 15 * nm /\ 10 * b * n > 8 * nm -> "Competitive"
                   [] n > 0 /\ 10 * b * n <= 8 * nm -> "Emerging"

\* b = 3 is exactly 1.5 times the mean 2: Competitive, not Strong
C18_Witness ==
    /\ Called("generate_competitive_report")
    /\ call.brand_data = 3
    /\ call.competitors = << 1, 3 >>
    /\ returned.market_position = "Competitive"

\* the items of a returned list are in document order
InDocumentOrder(value) ==
    \A j, k \in 1..Len(value) : j < k => value[j] <= value[k]

\* C19: _extract_faqs returns at most 10 pairs, in document order, each with
\* a non-empty question and a non-empty answer.
C19_FaqsBoundedOrderedNonEmpty ==
    Called("_extract_faqs") =>
       /\ returned.kind = "list"
       /\ Len(returned.value) <= FaqLimit
       /\ InDocumentOrder(returned.value)
       /\ \A k \in 1..Len(returned.value) :
             returned.value[k] # call.soup.defect_at

\* C20: _extract_hero_products returns at most 5 entries, in document order,
\* each with a non-empty title.
C20_HeroProductsBoundedOrderedTitled ==
    Called("_extract_hero_products") =>
       /\ returned.kind = "list"
       /\ Len(returned.value) <= HeroLimit
       /\ InDocumentOrder(returned.value)
       /\ \A k \in 1..Len(returned.value) :
             returned.value[k] # call.soup.defect_at

\* the string of a brands row has no scheme in front
SchemeLess(url) == url.scheme = ""

\* C21: for an input string without scheme the domain is the lower-cased
\* host of the string with https:// in front; the scrape result records it
\* and analyze_brand keys the brand row by it.
C21_DomainKeyIsQualifiedHost ==
    \A i \in 1..Len(brands) :
       SchemeLess(brands[i].website_url) =>
          /\ scrape_domain(brands[i].website_url) = lower(brands[i].website_url.host)
          /\ brands[i].domain = scrape_domain(brands[i].website_url)

\* C22: an input without a parseable host ends with InvalidUrlError before
\* any scrape is started, and no brand row is stored for it or keyed by an
\* empty domain.
C22_HostlessInputIsRejected ==
    /\ \A i \in 1..Len(brands) :
          /\ brands[i].domain # ""
          /\ ~Hostless(brands[i].website_url)
    /\ \A w \in Workers :
          (pc[w] # "idle" /\ Hostless(website_url[w])) =>
             /\ pc[w] \in {"handler", "done"}
             /\ exc[w] = "InvalidUrlError"

\* request w has issued no network request yet
NoNetworkYet(w) ==
    /\ scraped_data[w] = NoData
    /\ competitors_data[w] = << >>
    /\ next_competitor[w] = 1

\* C23: the first network request of a run (the homepage fetch of line 47)
\* is issued only after the commit of line 44 stored the brand row with
\* status in_progress, so the row read while the scrape runs is in_progress.
C23_InProgressBeforeNetwork ==
    \A w \in Workers :
       /\ pc[w] \in {"idle", "commit_in_progress"} => NoNetworkYet(w)
       /\ pc[w] = "scrape" =>
             /\ NoNetworkYet(w)
             /\ brand[w].state = "persistent"
             /\ brand[w].id \in 1..Len(brands)
             /\ brands[brand[w].id].scraping_status = "in_progress"
             /\ brands[brand[w].id].website_url = website_url[w]
             /\ brand[w].dirty = NoChanges

\* a new brand, stored as in_progress, whose scrape has not started
C23_Witness ==
    \E w \in Workers :
       /\ pc[w] = "scrape"
       /\ existing_brand[w] = NoBrand
       /\ brands[brand[w].id].scraping_status = "in_progress"
       /\ scraped_data[w] = NoData

\* C24: is_shopify_store is true when the body contains a signature token,
\* true when the host of the URL is a hosted subdomain whatever the body is,
\* and false otherwise.
C24_PlatformDetection ==
    Called("is_shopify_store") =>
       /\ returned.kind = "bool"
       /\ returned.value <=>
             \/ call.html_content.contains # {}
             \/ (call.url # NoUrl /\ HostedSubdomain(call.url))

\* the first source with text, in the order of the claim
FirstMatch(title, meta, logo) ==
    CASE title = "text" -> "title"
      [] title # "text" /\ meta = "text" -> "meta"
      [] title # "text" /\ meta # "text" /\ logo = "text" -> "logo"
      [] OTHER -> "domain"

\* C25: the name is the <title> text when there is one, else the meta
\* content, else the header logo, else the first label of the domain; a
\* later source never replaces an earlier one that matched.
C25_NameFirstMatchWins ==
    Called("_extract_basic_info") =>
       returned.name = FirstMatch(call.title, call.meta, call.logo)

\* C26: the text stored is at most max_length characters long (2,000 for a
\* policy, 500 for an answer), and a text not longer than that is stored
\* unchanged.
C26_TruncationLimitsAreExact ==
    Called("truncate_text") =>
       /\ returned.text.length <= call.max_length
       /\ call.text.length <= call.max_length =>
             /\ returned.text.unchanged
             /\ returned.text.length = call.text.length

\* the call is over as the claim allows: with the body of a response that
\* raised nothing, or with NetworkError from request MAX_RETRIES
EndedWithBodyOrError ==
    \/ /\ fetch_result.kind = "text"
       /\ RequestException(responses[Len(responses)]) = << >>
    \/ /\ fetch_result.kind = "NetworkError"
       /\ Len(responses) = MAX_RETRIES
       /\ RequestException(responses[Len(responses)]) # << >>

\* C27: every call of _fetch_page ends, after at most MAX_RETRIES requests,
\* and it ends with the body text of a successful response or with
\* NetworkError.
C27_FetchTerminates ==
    /\ [](Len(responses) <= MAX_RETRIES)
    /\ [](fetch_pc = "loop" => attempt = Len(responses) /\ attempt < MAX_RETRIES)
    /\ [](fetch_pc = "done" => Len(responses) >= 1 /\ EndedWithBodyOrError)
    /\ (fetch_pc = "loop") ~> (fetch_pc = "done")

\* the body is returned by the last request allowed, after a rate-limit
\* answer and a connection error
C27_Witness ==
    /\ fetch_pc = "done"
    /\ fetch_result.kind = "text"
    /\ Len(responses) = MAX_RETRIES
    /\ IsRateLimited(responses[1])
    /\ responses[2].kind = "exception"

\* C28: a brand row whose status is completed carries no error text.
C28_CompletedHasNoErrorText ==
    \A i \in 1..Len(brands) :
       brands[i].scraping_status = "completed" =>
          brands[i].scraping_errors = "None"

\* C29: scrape_store gives its caller a result and never an exception; the
\* result is failed exactly when it carries an error text, a completed
\* result carries none, and a failed result has is_shopify_store false and
\* no product catalog.
C29_ScrapeStoreNeverRaises ==
    scrape_pc = "done" =>
       /\ scrape_result.scraping_status \in {"completed", "failed"}
       /\ scrape_result.scraping_status = "failed"
             <=> scrape_result.scraping_errors # "None"
       /\ scrape_result.scraping_status = "failed" =>
             /\ ~scrape_result.is_shopify_store
             /\ ~scrape_result.has_catalog
             /\ scrape_result.product_catalog = << >>

\* Brand.to_dict(): the columns of the row except scraping_errors.  The
\* products are rows of another table; the dict has no key product_catalog
to_dict(row) ==
    [ website_url      |-> row.website_url,
      domain           |-> row.domain,
      scraping_status  |-> row.scraping_status,
      facts            |-> row.facts,
      product_catalog  |-> NoCatalogKey ]

\* line 161 for the dict of line 82: the brand's count that the report
\* compares
brand_product_count(w) == catalog_len(to_dict(brands[brand[w].id]).product_catalog)

\* lines 62-63: the products that this run of analyze_brand obtained and
\* saved for its brand (the products of request r are named after r)
obtained_catalog(w) == products[brand[w].id] \cap {run[w]}

\* C30: in analyze_brand with include_competitors, the product count that
\* the comparative report compares for the brand equals the size of the
\* product catalog obtained for the brand in the same run.
C30_ReportComparesCatalogSizes ==
    \A w \in Workers :
        (pc[w] = "report" /\ session[w] = "active") =>
            brand_product_count(w) = Cardinality(obtained_catalog(w))

====
